---- MODULE Spec2Model ----
(***************************************************************************)
(* Type lowering of binary_type_inference: field scheduling of structures  *)
(* (lowering/mod.rs), the lowering of a sketch graph to C types            *)
(* (lowering/mod.rs) and the points-to normalisation of memory accesses    *)
(* (node_context/points_to.rs).                                            *)
(***************************************************************************)
EXTENDS Integers, Sequences, FiniteSets, TLC

(***************************************************************************)
(* Bounds of the model.                                                    *)
(***************************************************************************)
\* longest field list handed to schedule_structures
MaxFields == 3
\* largest byte offset of an input field
MaxOff == 2

\* bit sizes of the input fields; 4 bits is a field of less than one byte and
\* 12 bits a field of one byte and a half
BitSizes == {4, 8, 12, 16, 32}

VARIABLES
    mode,           \* which entry point this behaviour exercises
    fields,         \* schedule_structures: the argument `fields`
    sorted_fields,  \* schedule_structures: the local `sorted_fields`
    hp,             \* schedule_structures: the BinaryHeap<Classroom> (its array)
    fld_idx,        \* schedule_structures: position of the for loop
    structures,     \* schedule_structures: the returned Vec<CType>
    spc,            \* schedule_structures: control position
    edges,          \* sketch graph: its edges, in the order edges_directed yields them
    node_bounds,    \* sketch graph: the LatticeBounds weight of each node
    tid_to_node_index,  \* LoweringContext::new: the argument tid_to_node_index
    out_param_mapping,  \* LoweringContext::new: the argument out_param_mapping
    ctx,            \* the LoweringContext (out_params, default_lattice_elem,
                    \* ephemeral_types, cached_primitivies, curr_id)
    types,          \* collect_ctypes: the local map `types`
    cand,           \* build_type: the locals of the call made for each node
    pc,             \* lowering: control position
    pointer_state,  \* PointsToContext: stack_id and the stack pointer register
    overflow_checks,\* whether the build panics on integer overflow
    dom_val,        \* points_to: the value the address evaluates to
    accesses,       \* points_to: the returned BTreeSet<TypeVariableAccess>
    ppc,            \* points_to: control position
    cfg_graph,      \* generate_constraints: the nodes of self.graph, in index order
    blk_defs,       \* generate_constraints: the definitions of the block of the nodes
    reg_map,        \* NodeContext: the register mapping
    cs,             \* generate_constraints: the local `cs`
    nd_ind,         \* generate_constraints: position of the for loop
    gpc,            \* generate_constraints: control position
    type_map,       \* convert_mapping_to_profobuf: the argument `mp`
    node_to_ty,     \* convert_mapping_to_profobuf: the argument `node_to_ty`
    mapping,        \* convert_mapping_to_profobuf: the returned CTypeMapping
    cpc             \* convert_mapping_to_profobuf: control position

sched_vars == <<fields, sorted_fields, hp, fld_idx, structures, spc>>

lower_vars == <<edges, node_bounds, tid_to_node_index, out_param_mapping,
                ctx, types, cand, pc>>

points_vars == <<pointer_state, overflow_checks, dom_val, accesses, ppc>>

constr_vars == <<cfg_graph, blk_defs, reg_map, cs, nd_ind, gpc>>

proto_vars == <<type_map, node_to_ty, mapping, cpc>>

vars == <<mode, fields, sorted_fields, hp, fld_idx, structures, spc,
          edges, node_bounds, tid_to_node_index, out_param_mapping,
          ctx, types, cand, pc,
          pointer_state, overflow_checks, dom_val, accesses, ppc,
          cfg_graph, blk_defs, reg_map, cs, nd_ind, gpc,
          type_map, node_to_ty, mapping, cpc>>

(***************************************************************************)
(* Helpers on sequences.                                                   *)
(***************************************************************************)
Last(s) == s[Len(s)]

\* the 0-based element i of a Vec
At(s, i) == s[i + 1]

\* a Vec with its 0-based element i replaced
SetAt(s, i, v) == [s EXCEPT ![i + 1] = v]

(***************************************************************************)
(* Field and Classroom.                                                    *)
(***************************************************************************)
Field(off, sz, ty) == [byte_offset |-> off, bit_sz |-> sz, type_index |-> ty]

\* Classroom::new
NewClassroom == [scheduled |-> <<>>, covering |-> <<>>]

compute_upper_bound_exclusive(base, size) == base + (size \div 8)

compute_fld_upper_bound_exlcusive(fld) ==
    compute_upper_bound_exclusive(fld.byte_offset, fld.bit_sz)

\* a next-schedulable offset that forgets the size of the last field
get_next_offset_ignoring_size(cls) ==
    IF Len(cls.scheduled) = 0 THEN 0 ELSE Last(cls.scheduled).byte_offset

get_next_scheduluable_offset(cls) ==
    IF Len(cls.scheduled) = 0
    THEN 0
    ELSE compute_fld_upper_bound_exlcusive(Last(cls.scheduled))

\* the BTreeMap `covering` is a function from its keys (base offsets) to sizes;
\* range(lo..hi) selects the keys lo <= k < hi
superscedes_fld(cls, fld) ==
    LET lo == fld.byte_offset
        hi == compute_fld_upper_bound_exlcusive(fld)
        overlapping_flds == {k \in DOMAIN cls.covering : lo <= k /\ k < hi}
    IN \E overlapping_base \in overlapping_flds :
          /\ overlapping_base < fld.byte_offset
          /\ compute_upper_bound_exclusive(overlapping_base,
                                           cls.covering[overlapping_base])
               >= compute_fld_upper_bound_exlcusive(fld)

\* BTreeMap::insert
MapInsert(mp, k, v) ==
    [x \in (DOMAIN mp) \cup {k} |-> IF x = k THEN v ELSE mp[x]]

\* a schedule_fld that records the field before it tests whether it fits
schedule_fld_keeps_rejected(cls, fld) ==
    <<get_next_scheduluable_offset(cls) <= fld.byte_offset,
      [scheduled |-> Append(cls.scheduled, fld),
       covering  |-> MapInsert(cls.covering, fld.byte_offset, fld.bit_sz)]>>

\* Classroom::schedule_fld: <<whether the field was placed, the classroom after>>
schedule_fld(cls, fld) ==
    IF get_next_scheduluable_offset(cls) > fld.byte_offset
    THEN <<FALSE, cls>>
    ELSE <<TRUE, [scheduled |-> Append(cls.scheduled, fld),
                  covering  |-> MapInsert(cls.covering, fld.byte_offset, fld.bit_sz)]>>

(***************************************************************************)
(* impl Ord for Classroom: the comparison is flipped, so that the greatest *)
(* classroom is the one with the smallest next schedulable offset.         *)
(***************************************************************************)
Compare(x, y) == IF x < y THEN -1 ELSE IF x = y THEN 0 ELSE 1

\* a comparison that is not flipped: a max heap of the next schedulable offsets
cmp_not_flipped(self, other) ==
    Compare(get_next_scheduluable_offset(self), get_next_scheduluable_offset(other))

\* Classroom::cmp
cmp(self, other) ==
    Compare(get_next_scheduluable_offset(other), get_next_scheduluable_offset(self))

ClsLe(a, b) == cmp(a, b) <= 0
ClsLt(a, b) == cmp(a, b) < 0
ClsGe(a, b) == cmp(a, b) >= 0

(***************************************************************************)
(* BinaryHeap<Classroom>: the heap is its backing array; push sifts the    *)
(* new last element up, and dropping a PeekMut that was dereferenced       *)
(* mutably sifts the top element down.                                     *)
(***************************************************************************)
RECURSIVE SiftUp(_, _, _)
SiftUp(data, pos, elt) ==
    IF pos > 0
    THEN LET parent == (pos - 1) \div 2
         IN IF ClsLe(elt, At(data, parent))
            THEN SetAt(data, pos, elt)
            ELSE SiftUp(SetAt(data, pos, At(data, parent)), parent, elt)
    ELSE SetAt(data, pos, elt)

HeapPush(data, cls) ==
    LET old_len == Len(data)
    IN SiftUp(Append(data, cls), old_len, cls)

RECURSIVE SiftDownRange(_, _, _, _)
SiftDownRange(data, pos, elt, end) ==
    LET child == 2 * pos + 1
    IN IF child + 1 < end
       THEN LET c == IF ClsLe(At(data, child), At(data, child + 1))
                     THEN child + 1 ELSE child
            IN IF ClsGe(elt, At(data, c))
               THEN SetAt(data, pos, elt)
               ELSE SiftDownRange(SetAt(data, pos, At(data, c)), c, elt, end)
       ELSE IF child = end - 1 /\ ClsLt(elt, At(data, child))
            THEN SetAt(SetAt(data, pos, At(data, child)), child, elt)
            ELSE SetAt(data, pos, elt)

\* the top classroom replaced by cls, then PeekMut::drop
PeekMutDrop(data, cls) == SiftDownRange(SetAt(data, 0, cls), 0, cls, Len(data))

(***************************************************************************)
(* schedule_structures.                                                    *)
(***************************************************************************)
\* sort_by_key(|x| x.byte_offset): a stable sort
RECURSIVE InsertSorted(_, _)
InsertSorted(s, f) ==
    IF Len(s) = 0 THEN <<f>>
    ELSE IF Last(s).byte_offset <= f.byte_offset
         THEN Append(s, f)
         ELSE Append(InsertSorted(SubSeq(s, 1, Len(s) - 1), f), Last(s))

RECURSIVE SortByOffset(_)
SortByOffset(s) ==
    IF Len(s) = 0 THEN <<>>
    ELSE InsertSorted(SortByOffset(SubSeq(s, 1, Len(s) - 1)), Last(s))

\* one iteration of the loop over sorted_fields: the heap after the iteration
ScheduleOne(heap, fld) ==
    IF \E i \in 1..Len(heap) : superscedes_fld(heap[i], fld)
    THEN heap
    ELSE LET tried == IF Len(heap) > 0
                      THEN schedule_fld(At(heap, 0), fld)
                      ELSE <<FALSE, NewClassroom>>
             scheduled == tried[1]
             after_peek == IF Len(heap) > 0 THEN PeekMutDrop(heap, tried[2]) ELSE heap
         IN IF scheduled
            THEN after_peek
            ELSE HeapPush(after_peek, schedule_fld(NewClassroom, fld)[2])

\* the assertion assert!(res) of the loop holds for this field
NewClassAccepts(fld) == schedule_fld(NewClassroom, fld)[1]

RECURSIVE ScheduleAll(_, _, _)
ScheduleAll(heap, flds, k) ==
    IF k = 0 THEN heap
    ELSE ScheduleOne(ScheduleAll(heap, flds, k - 1), flds[k])

Structure(flds) == [kind |-> "Structure", fields |-> flds]

\* hp.into_iter().map(|x| CType::Structure(x.scheduled)).collect()
HeapToStructures(heap) == [i \in 1..Len(heap) |-> Structure(heap[i].scheduled)]

schedule_structures(flds) ==
    LET sorted == SortByOffset(flds)
    IN HeapToStructures(ScheduleAll(<<>>, sorted, Len(sorted)))

(***************************************************************************)
(* The sketch graph handed to the lowering, and the inputs of              *)
(* LoweringContext::new.                                                   *)
(***************************************************************************)
\* most edges of a sketch graph
MaxEdges == 2

\* the node indices of the sketch graph
Nodes == {0, 1}

\* the subprocedure term identifiers
Tids == {"t1", "t2"}

FieldLabel(off, sz) == [tag |-> "Field", a |-> off, b |-> sz]
LoadLabel == [tag |-> "Load", a |-> 0, b |-> 0]
StoreLabel == [tag |-> "Store", a |-> 0, b |-> 0]
InLabel(k) == [tag |-> "In", a |-> k, b |-> 0]
OutLabel(k) == [tag |-> "Out", a |-> k, b |-> 0]

\* the field labels on the edges of the graphs explored
Labels == {FieldLabel(0, 32), FieldLabel(4, 32), FieldLabel(0, 64), FieldLabel(-4, 32),
           LoadLabel, StoreLabel, InLabel(0), InLabel(1), OutLabel(0), OutLabel(1)}

EdgeSeqs ==
    UNION {[1..n -> [src : Nodes, weight : Labels, target : Nodes]] : n \in 0..MaxEdges}

\* LatticeBounds of a node: the names of its lower and upper bound
Bounds(lo, up) == [lower |-> lo, upper |-> up]

\* node weights up to a renaming of the lattice elements
NodeBoundChoices ==
    {[n \in Nodes |-> Bounds("bottom", "int")],
     [n \in Nodes |-> Bounds("bottom", IF n = 0 THEN "int" ELSE "char")]}

DefaultChoices == {Bounds("bottom", "int")}

\* an Arg is its ByteSize: formal out-parameter locations of 4 and of 8 bytes
OutParamChoices ==
    {[t \in Tids |-> IF t = "t1" THEN <<4>> ELSE <<4, 8>>]}

\* two subprocedures on one node, and a subprocedure that has no node
TidToNodeChoices ==
    {[t \in Tids |-> 0], [t \in {"t1"} |-> 0]}

\* the orders in which a HashMap with these keys may be iterated
HashOrders(keys) ==
    {s \in [1..Cardinality(keys) -> keys] : \A i, j \in DOMAIN s : i # j => s[i] # s[j]}

\* edges_directed(nd, EdgeDirection::Outgoing)
EdgesOf(es, nd) == LET out(e) == e.src = nd IN SelectSeq(es, out)

edges_directed(nd) == EdgesOf(edges, nd)

(***************************************************************************)
(* CType.                                                                  *)
(***************************************************************************)
Primitive(nm) == [kind |-> "Primitive", name |-> nm]
Pointer(t) == [kind |-> "Pointer", target |-> t]
Alias(n) == [kind |-> "Alias", node |-> n]
\* return_ty is an Option: the empty set is None, {t} is Some(t)
Function(ps, ret) == [kind |-> "Function", params |-> ps, return_ty |-> ret]
Union_(ms) == [kind |-> "Union", members |-> ms]
Parameter(i, ty) == [index |-> i, type_index |-> ty]

\* the elements of a BTreeSet of numbers, ascending
RECURSIVE Ascending(_)
Ascending(S) ==
    IF S = {} THEN <<>>
    ELSE LET m == CHOOSE x \in S : \A y \in S : x <= y
         IN <<m>> \o Ascending(S \ {m})

Range(s) == {s[i] : i \in 1..Len(s)}

(***************************************************************************)
(* LoweringContext.                                                        *)
(***************************************************************************)
\* out_params as collected from out_param_mapping iterated in the order `order`:
\* a later pair with the same node index replaces an earlier one
RECURSIVE CollectOutParams(_, _, _, _)
CollectOutParams(t2n, opm, order, k) ==
    IF k = 0 THEN <<>>
    ELSE LET prev == CollectOutParams(t2n, opm, order, k - 1)
             tid == order[k]
         IN IF tid \in DOMAIN t2n
            THEN MapInsert(prev, t2n[tid], opm[tid])
            ELSE prev

MaxNodeIndex == CHOOSE n \in Nodes : \A m \in Nodes : m <= n

\* LoweringContext::new
new(t2n, opm, default, order) ==
    [out_params |-> CollectOutParams(t2n, opm, order, Len(order)),
     default_lattice_elem |-> default,
     ephemeral_types |-> <<>>,
     cached_primitivies |-> <<>>,
     curr_id |-> MaxNodeIndex + 1]

\* an add_type that does not advance curr_id
add_type_reusing_id(c, ty) ==
    [id  |-> c.curr_id,
     ctx |-> [c EXCEPT !.ephemeral_types = MapInsert(c.ephemeral_types, c.curr_id, ty)]]

\* an add_type that hands out the id and does not record the type
add_type_unrecorded(c, ty) ==
    [id  |-> c.curr_id,
     ctx |-> [c EXCEPT !.curr_id = c.curr_id + 1]]

\* LoweringContext::add_type
add_type(c, ty) ==
    [id  |-> c.curr_id,
     ctx |-> [c EXCEPT !.curr_id = c.curr_id + 1,
                       !.ephemeral_types = MapInsert(c.ephemeral_types, c.curr_id, ty)]]

\* translate_field: usize::try_from(field.offset) fails for a negative offset
translate_field(field, idx) ==
    IF field.a >= 0
    THEN [ok |-> TRUE, fld |-> Field(field.a, field.b, idx)]
    ELSE [ok |-> FALSE, fld |-> Field(0, 0, idx)]

has_non_zero_fields(nd) ==
    LET any(es) == \E i \in 1..Len(es) : /\ es[i].weight.tag = "Field"
                                        /\ es[i].weight.a # 0
    IN any(edges_directed(nd))

\* the filter_map of build_structure_types over the first k outgoing edges
RECURSIVE CollectFields(_, _, _)
CollectFields(c, es, k) ==
    IF k = 0 THEN [flds |-> <<>>, ctx |-> c]
    ELSE LET prev == CollectFields(c, es, k - 1)
             e == es[k]
         IN IF e.weight.tag = "Field"
            THEN LET added == add_type(prev.ctx, Alias(e.target))
                     tr == translate_field(e.weight, added.id)
                 IN [flds |-> IF tr.ok THEN Append(prev.flds, tr.fld) ELSE prev.flds,
                     ctx  |-> added.ctx]
            ELSE prev

\* LoweringContext::build_structure_types
build_structure_types(c, nd) ==
    IF ~has_non_zero_fields(nd)
    THEN [tys |-> <<>>, ctx |-> c]
    ELSE LET scheduled(got) == [tys |-> schedule_structures(got.flds), ctx |-> got.ctx]
             collected(es) == scheduled(CollectFields(c, es, Len(es)))
         IN collected(edges_directed(nd))

\* the targets of the outgoing Field edges, as Alias types in ascending order
AliasesOfFieldTargets(nd) ==
    LET unique_tgts(es) ==
            {es[i].target : i \in {j \in 1..Len(es) : es[j].weight.tag = "Field"}}
        aliases(ordered) == [i \in 1..Len(ordered) |-> Alias(ordered[i])]
    IN aliases(Ascending(unique_tgts(edges_directed(nd))))

\* build_alias_types without the test for fields at a non-zero offset
build_alias_types_unchecked(nd) == AliasesOfFieldTargets(nd)

build_alias_types(nd) ==
    IF has_non_zero_fields(nd) THEN <<>> ELSE AliasesOfFieldTargets(nd)

\* a terminal type that is never looked up in the cache
build_terminal_type_uncached(c, nd_bounds) ==
    LET nm == nd_bounds.upper
        added == add_type(c, Primitive(nm))
    IN [id  |-> added.id,
        ctx |-> [added.ctx EXCEPT !.cached_primitivies = MapInsert(@, nm, added.id)]]

\* LoweringContext::build_terminal_type
build_terminal_type(c, nd_bounds) ==
    LET nm == nd_bounds.upper
    IN IF nm \in DOMAIN c.cached_primitivies
       THEN [id |-> c.cached_primitivies[nm], ctx |-> c]
       ELSE LET added == add_type(c, Primitive(nm))
            IN [id  |-> added.id,
                ctx |-> [added.ctx EXCEPT
                            !.cached_primitivies = MapInsert(@, nm, added.id)]]

\* one Alias per target, in order: <<the type ids, the context>>
RECURSIVE AddAliases(_, _, _)
AddAliases(c, tgts, k) ==
    IF k = 0 THEN [ids |-> <<>>, ctx |-> c]
    ELSE LET prev == AddAliases(c, tgts, k - 1)
             added == add_type(prev.ctx, Alias(tgts[k]))
         IN [ids |-> Append(prev.ids, added.id), ctx |-> added.ctx]

\* one Pointer for every Load or Store edge, without the BTreeSet of targets
build_pointer_types_per_edge(c, nd) ==
    LET targets(es) ==
            LET hit(e) == e.weight.tag \in {"Load", "Store"}
                sel == SelectSeq(es, hit)
            IN [i \in 1..Len(sel) |-> sel[i].target]
        pointers(got) ==
            [tys |-> [i \in 1..Len(got.ids) |-> Pointer(got.ids[i])], ctx |-> got.ctx]
        aliased(tgts) == pointers(AddAliases(c, tgts, Len(tgts)))
    IN aliased(targets(edges_directed(nd)))

\* LoweringContext::build_pointer_types
build_pointer_types(c, nd) ==
    LET load_or_store_targets(es) ==
            {es[i].target : i \in {j \in 1..Len(es) :
                                      es[j].weight.tag \in {"Load", "Store"}}}
        pointers(got) ==
            [tys |-> [i \in 1..Len(got.ids) |-> Pointer(got.ids[i])], ctx |-> got.ctx]
        aliased(tgts) == pointers(AddAliases(c, tgts, Len(tgts)))
    IN aliased(Ascending(load_or_store_targets(edges_directed(nd))))

\* the targets of the outgoing edges labelled tag(idx), in edge order
TargetsAt(es, tag, idx) ==
    LET hit(e) == e.weight.tag = tag /\ e.weight.a = idx
        sel == SelectSeq(es, hit)
    IN [i \in 1..Len(sel) |-> sel[i].target]

\* the type of one parameter: an Alias, or a Union of Aliases
ParamType(c, tys) ==
    IF Len(tys) = 1
    THEN add_type(c, Alias(tys[1]))
    ELSE LET utype(got) == add_type(got.ctx, Union_(Range(got.ids)))
         IN utype(AddAliases(c, tys, Len(tys)))

RECURSIVE ParamsFor(_, _, _, _, _)
ParamsFor(c, es, tag, idxs, k) ==
    IF k = 0 THEN [params |-> <<>>, ctx |-> c]
    ELSE LET prev == ParamsFor(c, es, tag, idxs, k - 1)
             ty == ParamType(prev.ctx, TargetsAt(es, tag, idxs[k]))
         IN [params |-> Append(prev.params, Parameter(idxs[k], ty.id)), ctx |-> ty.ctx]

\* LoweringContext::collect_params, for the labels In(_) or Out(_)
collect_params(c, nd, tag) ==
    LET keys(es) == {es[i].weight.a : i \in {j \in 1..Len(es) : es[j].weight.tag = tag}}
        params(es, idxs) == ParamsFor(c, es, tag, idxs, Len(idxs))
        grouped(es) == params(es, Ascending(keys(es)))
    IN grouped(edges_directed(nd))

\* out_params.sort_by_key(|p| p.index): a stable sort
RECURSIVE InsertByIndex(_, _)
InsertByIndex(s, p) ==
    IF Len(s) = 0 THEN <<p>>
    ELSE IF Last(s).index <= p.index
         THEN Append(s, p)
         ELSE Append(InsertByIndex(SubSeq(s, 1, Len(s) - 1), p), Last(s))

RECURSIVE SortByIndex(_)
SortByIndex(s) ==
    IF Len(s) = 0 THEN <<>>
    ELSE InsertByIndex(SortByIndex(SubSeq(s, 1, Len(s) - 1)), Last(s))

\* ByteSize::as_bit_length
as_bit_length(bytesize) == bytesize * 8

\* an offset advanced by the bit length of the location
advance_offset_by_bits(curr_off, arg) == curr_off + as_bit_length(arg)

\* curr_off += arg.bytesize().as_bit_length() / 8
advance_offset(curr_off, arg) == curr_off + (as_bit_length(arg) \div 8)

\* the loop of build_return_type_structure over the first k locations
RECURSIVE ReturnFields(_, _, _, _, _)
ReturnFields(c, orig_param_locs, params, default, k) ==
    IF k = 0 THEN [flds |-> <<>>, curr_off |-> 0, ctx |-> c]
    ELSE LET prev == ReturnFields(c, orig_param_locs, params, default, k - 1)
             i == k - 1
             arg == orig_param_locs[k]
             mp == {j \in 1..Len(params) : params[j].index = i}
             ty == IF mp # {}
                   THEN [id |-> params[CHOOSE j \in mp : TRUE].type_index, ctx |-> prev.ctx]
                   ELSE build_terminal_type(prev.ctx, default)
         IN [flds |-> Append(prev.flds, Field(prev.curr_off, as_bit_length(arg), ty.id)),
             curr_off |-> advance_offset(prev.curr_off, arg),
             ctx |-> ty.ctx]

\* LoweringContext::build_return_type_structure
build_return_type_structure(c, orig_param_locs, params, default) ==
    LET structure(got) == [ty |-> Structure(got.flds), ctx |-> got.ctx]
    IN structure(ReturnFields(c, orig_param_locs, params, default, Len(orig_param_locs)))

\* the type of the out-parameter after the first one
second_out_type(out_ps) == IF Len(out_ps) > 1 THEN {out_ps[2].type_index} ELSE {}

\* out_params.get(0).map(|x| x.type_index)
first_out_type(out_ps) == IF Len(out_ps) > 0 THEN {out_ps[1].type_index} ELSE {}

\* self.out_params.get(&nd).unwrap_or(&def)
OrigParams(c, nd) == IF nd \in DOMAIN c.out_params THEN c.out_params[nd] ELSE <<>>

\* the return type of a function: <<Option<TypeId>, the context>>
ReturnType(c, nd, out_ps) ==
    LET curr_orig_params == OrigParams(c, nd)
    IN IF Len(out_ps) > 1 \/ Len(curr_orig_params) > 1
       THEN LET some(added) == [oparam |-> {added.id}, ctx |-> added.ctx]
                typed(ret_struct) == some(add_type(ret_struct.ctx, ret_struct.ty))
            IN typed(build_return_type_structure(c, curr_orig_params, out_ps,
                                                 c.default_lattice_elem))
       ELSE [oparam |-> first_out_type(out_ps), ctx |-> c]

\* LoweringContext::build_function_types
build_function_types(c, nd) ==
    LET function(in_params, out_ps, ret) ==
            [tys |-> IF Len(in_params) > 0 \/ Len(out_ps) > 0
                     THEN <<Function(in_params, ret.oparam)>>
                     ELSE <<>>,
             out_params |-> out_ps,
             ctx |-> ret.ctx]
        returned(in_params, out_ps, c2) ==
            function(in_params, out_ps, ReturnType(c2, nd, out_ps))
        with_outs(in_params, outs) ==
            returned(in_params, SortByIndex(outs.params), outs.ctx)
        with_ins(ins) == with_outs(ins.params, collect_params(ins.ctx, nd, "Out"))
    IN with_ins(collect_params(c, nd, "In"))

\* each candidate gets a type id, in order
RECURSIVE AddTypes(_, _, _)
AddTypes(c, tys, k) ==
    IF k = 0 THEN [ids |-> <<>>, ctx |-> c]
    ELSE LET prev == AddTypes(c, tys, k - 1)
             added == add_type(prev.ctx, tys[k])
         IN [ids |-> Append(prev.ids, added.id), ctx |-> added.ctx]

\* the first candidate alone is given a type, whatever the number of candidates
finish_type_first_candidate(c, total_types) ==
    IF Len(total_types) >= 1
    THEN add_type(c, total_types[1])
    ELSE add_type(c, Union_({}))

\* every candidate list ends in a Union, also a list of one
finish_type_always_union(c, total_types) ==
    LET union(got) == add_type(got.ctx, Union_(Range(got.ids)))
    IN union(AddTypes(c, total_types, Len(total_types)))

\* the end of build_type: the only candidate, or the Union of the candidates
finish_type(c, total_types) ==
    IF Len(total_types) = 1
    THEN add_type(c, total_types[1])
    ELSE LET union(got) == add_type(got.ctx, Union_(Range(got.ids)))
         IN union(AddTypes(c, total_types, Len(total_types)))

NoCand == [nd |-> -1, terminal |-> FALSE, struct_types |-> <<>>, alias_types |-> <<>>,
           pointer_types |-> <<>>, function_types |-> <<>>, out_params |-> <<>>]

\* LoweringContext::build_type: the type id, the context after the call and the
\* locals of the call
build_type(c, nd) ==
    IF Len(edges_directed(nd)) = 0
    THEN LET terminal(t) == [id |-> t.id, ctx |-> t.ctx,
                             locals |-> [NoCand EXCEPT !.nd = nd, !.terminal = TRUE]]
         IN terminal(build_terminal_type(c, node_bounds[nd]))
    ELSE LET typed(st, alias_types, pt, ft, fin) ==
                 [id |-> fin.id, ctx |-> fin.ctx,
                  locals |-> [nd |-> nd, terminal |-> FALSE, struct_types |-> st.tys,
                              alias_types |-> alias_types, pointer_types |-> pt.tys,
                              function_types |-> ft.tys, out_params |-> ft.out_params]]
             with_functions(st, alias_types, pt, ft) ==
                 typed(st, alias_types, pt, ft,
                       finish_type(ft.ctx, st.tys \o alias_types \o pt.tys \o ft.tys))
             with_pointers(st, alias_types, pt) ==
                 with_functions(st, alias_types, pt, build_function_types(pt.ctx, nd))
             with_structs(st, alias_types) ==
                 with_pointers(st, alias_types, build_pointer_types(st.ctx, nd))
         IN with_structs(build_structure_types(c, nd), build_alias_types(nd))

\* the loop of collect_ctypes over the nodes 0 .. k-1
RECURSIVE CollectTypes(_, _)
CollectTypes(c, k) ==
    IF k = 0 THEN [types |-> <<>>, ctx |-> c]
    ELSE LET step(prev) ==
                 LET built(r) == [types |-> MapInsert(prev.types, k - 1, r.id),
                                  ctx |-> r.ctx]
                 IN built(build_type(prev.ctx, k - 1))
         IN step(CollectTypes(c, k - 1))

\* LoweringContext::collect_ctypes: Ok((types, self.ephemeral_types))
collect_ctypes(c) ==
    LET result(r) == <<r.types, r.ctx.ephemeral_types>>
    IN result(CollectTypes(c, Cardinality(Nodes)))

(***************************************************************************)
(* PointsToContext (node_context/points_to.rs).  An offset is an i64,      *)
(* modelled with OffsetBits bits; an IntervalDomain is exact (one value,   *)
(* try_to_offset is Ok) or not (try_to_offset is Err).                     *)
(***************************************************************************)
\* width of the offsets of the model, in bits
OffsetBits == 4

MinOffset == -(2 ^ (OffsetBits - 1))
MaxOffset == (2 ^ (OffsetBits - 1)) - 1
Offsets == MinOffset..MaxOffset

\* two's complement wrap-around
Wrap(x) == ((x - MinOffset) % (2 ^ OffsetBits)) + MinOffset

Exact(v) == [exact |-> TRUE, value |-> v]
Inexact == [exact |-> FALSE, value |-> 0]
Intervals == {Exact(v) : v \in Offsets} \cup {Inexact}

\* AbstractIdentifier::to_string of the stack object and of a heap object
StackId == <<"f", " ", "@", " ", "s", "p">>
HeapId == <<"m", "@", " ", "r", "0">>
ObjectIds == {StackId, HeapId}

\* the value of the stack pointer register: get_if_unique_target is Some((id, off))
\* or None
UniqueTarget(off) == [unique |-> TRUE, off |-> off]
NoUniqueTarget == [unique |-> FALSE, off |-> Inexact]
RegisterValues == {UniqueTarget(i) : i \in Intervals} \cup {NoUniqueTarget}

\* the relative values of a DataDomain: a map from identifiers to offsets
DomVals == UNION {[ids -> Intervals] : ids \in SUBSET ObjectIds}

AccessSizes == {4, 8}

\* chars().filter(|c| !c.is_whitespace()).collect()
StripWhitespace(str) == LET keep(ch) == ch \notin {" ", "\t", "\n"} IN SelectSeq(str, keep)

\* an arithmetic result overflows the width
Overflows(x) == x < MinOffset \/ x > MaxOffset

\* the offset is returned whatever its sign
offset_unchecked(curr_offset) == {curr_offset}

\* if curr_offset.is_negative() { None } else { Some(curr_offset) }
offset_or_none(curr_offset) == IF curr_offset < 0 THEN {} ELSE {curr_offset}

\* the stack pointer offset an access on the current stack is normalized by:
\* {curr_size}, or {} when the access is left as it is
StackSize(st, object_id) ==
    IF /\ st.stack_id = object_id
       /\ st.stack_pointer.unique
       /\ st.stack_pointer.off.exact
    THEN {st.stack_pointer.off.value}
    ELSE {}

\* PointsToContext::memory_access_into_tvar; `panics` when an i64 operation
\* overflows in a build with overflow checks, where the other build wraps
memory_access_into_tvar(st, checks, object_id, offset, sz) ==
    LET access(curr_sizes, off) ==
            LET overflow == \E curr_size \in curr_sizes :
                                \/ Overflows(-curr_size)
                                \/ Overflows(-off)
                                \/ Overflows(off - curr_size)
                normalized(curr_offset) ==
                    [panics |-> checks /\ overflow,
                     offset |-> offset_or_none(curr_offset),
                     ty_var |-> StripWhitespace(object_id),
                     sz     |-> sz]
            IN IF curr_sizes = {}
               THEN normalized(off)
               ELSE normalized(Wrap(off - (CHOOSE curr_size \in curr_sizes : TRUE)))
    IN IF offset.exact
       THEN access(StackSize(st, object_id), offset.value)
       ELSE [panics |-> FALSE, offset |-> {},
             ty_var |-> StripWhitespace(object_id), sz |-> sz]

\* PointsToContext::dom_val_to_tvars
dom_val_to_tvars(st, checks, dv, sz) ==
    {memory_access_into_tvar(st, checks, a_id, dv[a_id], sz) : a_id \in DOMAIN dv}

NoState == [stack_id |-> <<>>, stack_pointer |-> NoUniqueTarget]

PointsIdle ==
    /\ pointer_state = NoState
    /\ overflow_checks = FALSE
    /\ dom_val = <<>>
    /\ accesses = {}
    /\ ppc = "idle"

(***************************************************************************)
(* Constraint generation (constraint_generation/mod.rs).  The graph is the *)
(* control flow graph of cwe_checker; its nodes refer to one block, whose  *)
(* definitions are `blk_defs`.  The RegisterMapping is an argument: it     *)
(* maps a variable to a type variable and auxiliary constraints.           *)
(***************************************************************************)
\* most definitions of a block
MaxDefs == 2

Registers == {"r0", "r1"}

\* Expression::Var(v) and an expression of another form
VarExpr(v) == [kind |-> "Var", var |-> v]
ConstExpr == [kind |-> "Const", var |-> ""]
Expressions == {VarExpr(v) : v \in Registers} \cup {ConstExpr}

\* Def::Assign, Def::Load and Def::Store
AssignDef(var, value) == [kind |-> "Assign", var |-> var, value |-> value]
LoadDef(var, address) == [kind |-> "Load", var |-> var, value |-> address]
StoreDef(address, value) == [kind |-> "Store", var |-> address.var, value |-> value]
Defs ==
    {AssignDef(var, value) : var \in Registers, value \in Expressions}
        \cup {LoadDef("r0", VarExpr("r1")), StoreDef(VarExpr("r0"), VarExpr("r1"))}

DefSeqs == UNION {[1..n -> Defs] : n \in 0..MaxDefs}

\* Node::BlkStart, Node::BlkEnd, Node::CallReturn and Node::CallSource, each with
\* or without an entry in node_contexts
CfgNode(kind, has_context) == [kind |-> kind, has_context |-> has_context]
CfgNodes ==
    {CfgNode(kind, has_context) :
        kind \in {"BlkStart", "BlkEnd", "CallReturn", "CallSource"},
        has_context \in BOOLEAN}

CfgGraphs == UNION {[1..n -> CfgNodes] : n \in {1, 2}}

DerivedTypeVar(tv) == [base |-> tv, path |-> <<>>]
SubtypeConstraint(lhs, rhs) == [lhs |-> lhs, rhs |-> rhs]

\* the register mappings explored: the type variable of a register, with no
\* auxiliary constraint or with one
TypeVariableOf(var) == <<"tau", var>>
RegMaps ==
    {[var \in Registers |-> [tv |-> TypeVariableOf(var), cs |-> {}]],
     [var \in Registers |->
        [tv |-> TypeVariableOf(var),
         cs |-> {SubtypeConstraint(DerivedTypeVar(<<"def", var>>),
                                   DerivedTypeVar(TypeVariableOf(var)))}]]}

\* RegisterMapping::access
access(rm, var) == rm[var]

\* ConstraintSet::default() and ConstraintSet::empty()
EmptyConstraintSet == {}

\* NodeContext::generate_expression_constraint
generate_expression_constraint(rm, lhs_type_var, value) ==
    IF value.kind = "Var"
    THEN LET got == access(rm, value.var)
         IN {SubtypeConstraint(DerivedTypeVar(got.tv), DerivedTypeVar(lhs_type_var))}
                \cup got.cs
    ELSE EmptyConstraintSet

\* NodeContext::handle_def: every arm is ConstraintSet::default()
handle_def(rm, df) ==
    CASE df.kind = "Load" -> EmptyConstraintSet
      [] df.kind = "Store" -> EmptyConstraintSet
      [] df.kind = "Assign" -> EmptyConstraintSet

\* NodeContext::handle_block_start: the fold of union over the definitions
RECURSIVE handle_block_start(_, _, _)
handle_block_start(rm, defs, k) ==
    IF k = 0 THEN EmptyConstraintSet
    ELSE handle_block_start(rm, defs, k - 1) \cup handle_def(rm, defs[k])

\* Context::generate_constraints_for_node
generate_constraints_for_node(rm, defs, nd) ==
    IF nd.has_context
    THEN CASE nd.kind = "BlkStart" -> handle_block_start(rm, defs, Len(defs))
           [] nd.kind = "CallReturn" -> EmptyConstraintSet
           [] nd.kind = "CallSource" -> EmptyConstraintSet
           [] nd.kind = "BlkEnd" -> EmptyConstraintSet
    ELSE EmptyConstraintSet

ConstrIdle ==
    /\ cfg_graph = <<>>
    /\ blk_defs = <<>>
    /\ reg_map = <<>>
    /\ cs = {}
    /\ nd_ind = 0
    /\ gpc = "idle"

ProtoIdle ==
    /\ type_map = <<>>
    /\ node_to_ty = <<>>
    /\ mapping = <<>>
    /\ cpc = "idle"

(***************************************************************************)
(* The conversion of a type map to protobuf (lowering/mod.rs).  A u32 of   *)
(* the protobuf messages is modelled with OutBits bits; a usize is wider.  *)
(* A Result or an Option is a set: empty for Err or None, {v} otherwise.   *)
(***************************************************************************)
\* width of the integers of the protobuf messages, in bits
OutBits == 3

MaxU32 == (2 ^ OutBits) - 1

\* the usize values explored: the least, the greatest that fits, the first that
\* does not
Usizes == {0, MaxU32, MaxU32 + 1}

\* a cast that keeps the low bits and never fails
as_u32_wrapping(x) == {x % (2 ^ OutBits)}

\* u32::try_from(x) and x.try_into(): Err when x has a bit above the width
try_into_u32(x) == IF x <= MaxU32 THEN {x % (2 ^ OutBits)} ELSE {}

\* convert_typeid: unwrap panics on Err
convert_typeid(type_id) ==
    [panics |-> try_into_u32(type_id) = {},
     msg    |-> [type_id |-> try_into_u32(type_id)]]

\* field_to_protobuf
field_to_protobuf(internal_field) ==
    LET ty == convert_typeid(internal_field.type_index)
    IN [panics |-> \/ try_into_u32(internal_field.bit_sz) = {}
                   \/ try_into_u32(internal_field.byte_offset) = {}
                   \/ ty.panics,
        msg    |-> [bit_size |-> try_into_u32(internal_field.bit_sz),
                    byte_offset |-> try_into_u32(internal_field.byte_offset),
                    type_id |-> {ty.msg}]]

\* param_to_protofbuf
param_to_protofbuf(internal_param) ==
    LET ty == convert_typeid(internal_param.type_index)
    IN [panics |-> try_into_u32(internal_param.index) = {} \/ ty.panics,
        msg    |-> [parameter_index |-> try_into_u32(internal_param.index),
                    type_index |-> {ty.msg}]]

\* produce_inner_types
produce_inner_types(ct, n2t) ==
    CASE ct.kind = "Alias" ->
            LET to_type == IF ct.node \in DOMAIN n2t
                           THEN {convert_typeid(n2t[ct.node])} ELSE {}
            IN [panics |-> \E t \in to_type : t.panics,
                msg    |-> [kind |-> "Alias", to_type |-> {t.msg : t \in to_type}]]
      [] ct.kind = "Function" ->
            LET ps == [i \in 1..Len(ct.params) |-> param_to_protofbuf(ct.params[i])]
                ret == {convert_typeid(r) : r \in ct.return_ty}
            IN [panics |-> \/ \E i \in 1..Len(ps) : ps[i].panics
                           \/ \E r \in ret : r.panics,
                msg    |-> [kind |-> "Function",
                            parameters |-> [i \in 1..Len(ps) |-> ps[i].msg],
                            return_type |-> {r.msg : r \in ret},
                            has_return |-> ct.return_ty # {}]]
      [] ct.kind = "Pointer" ->
            LET ty == convert_typeid(ct.target)
            IN [panics |-> ty.panics,
                msg    |-> [kind |-> "Pointer", to_type_id |-> {ty.msg}]]
      [] ct.kind = "Primitive" ->
            [panics |-> FALSE,
             msg    |-> [kind |-> "Primitive", type_constant |-> ct.name]]
      [] ct.kind = "Structure" ->
            LET fs == [i \in 1..Len(ct.fields) |-> field_to_protobuf(ct.fields[i])]
            IN [panics |-> \E i \in 1..Len(fs) : fs[i].panics,
                msg    |-> [kind |-> "Structure",
                            fields |-> [i \in 1..Len(fs) |-> fs[i].msg]]]
      [] ct.kind = "Union" ->
            LET children == Ascending(ct.members)
                ids == [i \in 1..Len(children) |-> convert_typeid(children[i])]
            IN [panics |-> \E i \in 1..Len(ids) : ids[i].panics,
                msg    |-> [kind |-> "Union",
                            target_type_ids |-> [i \in 1..Len(ids) |-> ids[i].msg]]]

\* the for_each of convert_mapping_to_profobuf over the first k entries of mp, in
\* ascending order of the type ids
RECURSIVE ConvertEntries(_, _, _, _)
ConvertEntries(tm, n2t, keys, k) ==
    IF k = 0 THEN [panics |-> FALSE, type_id_to_ctype |-> <<>>]
    ELSE LET prev == ConvertEntries(tm, n2t, keys, k - 1)
             idx == keys[k]
             ctype == produce_inner_types(tm[idx], n2t)
             id == convert_typeid(idx)
         IN IF prev.panics \/ ctype.panics \/ id.panics
            THEN [panics |-> TRUE, type_id_to_ctype |-> <<>>]
            ELSE [panics |-> FALSE,
                  type_id_to_ctype |->
                      MapInsert(prev.type_id_to_ctype,
                                CHOOSE v \in id.msg.type_id : TRUE,
                                [type_id |-> {id.msg}, inner_type |-> {ctype.msg}])]

\* convert_mapping_to_profobuf
convert_mapping_to_profobuf(tm, n2t) ==
    LET converted(keys) == ConvertEntries(tm, n2t, keys, Len(keys))
    IN converted(Ascending(DOMAIN tm))

\* the CTypes of the type maps explored
ProtoCTypes ==
    {Primitive("int")}
        \cup {Pointer(t) : t \in Usizes}
        \cup {Alias(n) : n \in Nodes}
        \cup {Structure(<<>>)}
        \cup {Structure(<<Field(off, sz, ty)>>) : off \in Usizes, sz \in Usizes, ty \in Usizes}
        \cup {Function(<<Parameter(i, ty)>>, ret) :
                 i \in Usizes, ty \in Usizes, ret \in {{}} \cup {{r} : r \in Usizes}}
        \cup {Union_(ms) : ms \in SUBSET Usizes}

\* type maps of one entry, and of two entries that are pointers to each other
TypeMaps ==
    {[id \in {k} |-> ct] : k \in Usizes, ct \in ProtoCTypes}
        \cup {[id \in {k1, k2} |-> Pointer(IF id = k1 THEN k2 ELSE k1)] :
                 k1 \in Usizes, k2 \in Usizes}

\* node 0 has a type, node 1 has none
NodeToTys == {[n \in {0} |-> t] : t \in Usizes}

(***************************************************************************)
(* The lowering as a process: LoweringContext::new, then collect_ctypes    *)
(* with one step per node of the graph.                                    *)
(***************************************************************************)
NoCtx == [out_params |-> <<>>, default_lattice_elem |-> Bounds("bottom", "bottom"),
          ephemeral_types |-> <<>>, cached_primitivies |-> <<>>, curr_id |-> 0]

LowerIdle ==
    /\ edges = <<>>
    /\ node_bounds = <<>>
    /\ tid_to_node_index = <<>>
    /\ out_param_mapping = <<>>
    /\ ctx = NoCtx
    /\ types = <<>>
    /\ cand = <<>>
    /\ pc = "idle"

SchedIdle ==
    /\ fields = <<>>
    /\ sorted_fields = <<>>
    /\ hp = <<>>
    /\ fld_idx = 0
    /\ structures = <<>>
    /\ spc = "idle"

InitLower ==
    /\ mode = "lower"
    /\ edges \in EdgeSeqs
    /\ node_bounds \in NodeBoundChoices
    /\ tid_to_node_index = <<>>
    /\ out_param_mapping = <<>>
    /\ ctx = NoCtx
    /\ types = <<>>
    /\ cand = <<>>
    /\ pc = "new"
    /\ SchedIdle
    /\ PointsIdle
    /\ ConstrIdle
    /\ ProtoIdle

New ==
    /\ mode = "lower"
    /\ pc = "new"
    /\ \E t2n \in TidToNodeChoices, opm \in OutParamChoices, default \in DefaultChoices :
         \E order \in HashOrders(DOMAIN opm) :
            /\ tid_to_node_index' = t2n
            /\ out_param_mapping' = opm
            /\ ctx' = new(t2n, opm, default, order)
    /\ pc' = "collect"
    /\ UNCHANGED <<mode, edges, node_bounds, types, cand, sched_vars, points_vars, constr_vars, proto_vars>>

\* the node the loop of collect_ctypes is at: node_indices() is ascending
NextNode == Cardinality(DOMAIN types)

BuildType ==
    /\ mode = "lower"
    /\ pc = "collect"
    /\ NextNode \in Nodes
    /\ \E r \in {build_type(ctx, NextNode)} :
          /\ types' = MapInsert(types, NextNode, r.id)
          /\ ctx' = r.ctx
          /\ cand' = MapInsert(cand, NextNode, r.locals)
    /\ UNCHANGED <<mode, edges, node_bounds, tid_to_node_index, out_param_mapping,
                   pc, sched_vars, points_vars, constr_vars, proto_vars>>

\* collect_ctypes returns Ok((types, self.ephemeral_types))
ReturnTypes ==
    /\ mode = "lower"
    /\ pc = "collect"
    /\ NextNode \notin Nodes
    /\ pc' = "done"
    /\ UNCHANGED <<mode, edges, node_bounds, tid_to_node_index, out_param_mapping,
                   ctx, types, cand, sched_vars, points_vars, constr_vars, proto_vars>>

NextLower == New \/ BuildType \/ ReturnTypes

InitPoints ==
    /\ mode = "points_to"
    /\ \E sp \in RegisterValues : pointer_state = [stack_id |-> StackId, stack_pointer |-> sp]
    /\ overflow_checks \in BOOLEAN
    /\ dom_val = <<>>
    /\ accesses = {}
    /\ ppc = "ready"
    /\ SchedIdle
    /\ LowerIdle
    /\ ConstrIdle
    /\ ProtoIdle

\* PointsToContext::points_to: self.pointer_state.eval(address) is dv
PointsTo ==
    /\ mode = "points_to"
    /\ ppc = "ready"
    /\ \E dv \in DomVals, sz \in AccessSizes :
         \E result \in {dom_val_to_tvars(pointer_state, overflow_checks, dv, sz)} :
            /\ dom_val' = dv
            /\ IF \E a \in result : a.panics
               THEN accesses' = {} /\ ppc' = "panicked"
               ELSE accesses' = result /\ ppc' = "returned"
    /\ UNCHANGED <<mode, pointer_state, overflow_checks, sched_vars, lower_vars,
                   constr_vars, proto_vars>>

NextPoints == PointsTo

(***************************************************************************)
(* schedule_structures as a process: the sort, one step per field, the     *)
(* collection of the result.                                               *)
(***************************************************************************)
InputFields ==
    UNION {[1..n -> (0..MaxOff) \X BitSizes] : n \in 0..MaxFields}

\* the type index of a field is fresh for each field (add_type)
MkFields(raw) == [i \in 1..Len(raw) |-> Field(raw[i][1], raw[i][2], i)]

InitSched ==
    /\ mode = "schedule"
    /\ \E raw \in InputFields : fields = MkFields(raw)
    /\ sorted_fields = <<>>
    /\ hp = <<>>
    /\ fld_idx = 0
    /\ structures = <<>>
    /\ spc = "start"
    /\ LowerIdle
    /\ PointsIdle
    /\ ConstrIdle
    /\ ProtoIdle

SortFields ==
    /\ mode = "schedule"
    /\ spc = "start"
    /\ sorted_fields' = SortByOffset(fields)
    /\ fld_idx' = 1
    /\ spc' = "loop"
    /\ UNCHANGED <<mode, fields, hp, structures, lower_vars, points_vars, constr_vars, proto_vars>>

ScheduleField ==
    /\ mode = "schedule"
    /\ spc = "loop"
    /\ fld_idx <= Len(sorted_fields)
    /\ hp' = ScheduleOne(hp, sorted_fields[fld_idx])
    /\ fld_idx' = fld_idx + 1
    /\ UNCHANGED <<mode, fields, sorted_fields, structures, spc, lower_vars, points_vars, constr_vars, proto_vars>>

EmitStructures ==
    /\ mode = "schedule"
    /\ spc = "loop"
    /\ fld_idx > Len(sorted_fields)
    /\ structures' = HeapToStructures(hp)
    /\ spc' = "done"
    /\ UNCHANGED <<mode, fields, sorted_fields, hp, fld_idx, lower_vars, points_vars, constr_vars, proto_vars>>

NextSched == SortFields \/ ScheduleField \/ EmitStructures

(***************************************************************************)
(* generate_constraints as a process: one step per node of the graph.      *)
(***************************************************************************)
InitConstr ==
    /\ mode = "constraints"
    /\ cfg_graph \in CfgGraphs
    /\ blk_defs \in DefSeqs
    /\ reg_map \in RegMaps
    /\ cs = EmptyConstraintSet
    /\ nd_ind = 1
    /\ gpc = "loop"
    /\ SchedIdle
    /\ LowerIdle
    /\ PointsIdle
    /\ ProtoIdle

\* one iteration of the loop of generate_constraints
GenerateConstraintsForNode ==
    /\ mode = "constraints"
    /\ gpc = "loop"
    /\ nd_ind <= Len(cfg_graph)
    /\ cs' = cs \cup generate_constraints_for_node(reg_map, blk_defs, cfg_graph[nd_ind])
    /\ nd_ind' = nd_ind + 1
    /\ UNCHANGED <<mode, cfg_graph, blk_defs, reg_map, gpc,
                   sched_vars, lower_vars, points_vars, proto_vars>>

\* generate_constraints returns cs
ReturnConstraints ==
    /\ mode = "constraints"
    /\ gpc = "loop"
    /\ nd_ind > Len(cfg_graph)
    /\ gpc' = "done"
    /\ UNCHANGED <<mode, cfg_graph, blk_defs, reg_map, cs, nd_ind,
                   sched_vars, lower_vars, points_vars, proto_vars>>

NextConstr == GenerateConstraintsForNode \/ ReturnConstraints

(***************************************************************************)
(* convert_mapping_to_profobuf as a process.                               *)
(***************************************************************************)
InitProto ==
    /\ mode = "protobuf"
    /\ type_map \in TypeMaps
    /\ node_to_ty \in NodeToTys
    /\ mapping = <<>>
    /\ cpc = "ready"
    /\ SchedIdle
    /\ LowerIdle
    /\ PointsIdle
    /\ ConstrIdle

\* the call: the mapping is returned, or an unwrap panics
ConvertMapping ==
    /\ mode = "protobuf"
    /\ cpc = "ready"
    /\ \E r \in {convert_mapping_to_profobuf(type_map, node_to_ty)} :
          IF r.panics
          THEN mapping' = <<>> /\ cpc' = "panicked"
          ELSE mapping' = r.type_id_to_ctype /\ cpc' = "converted"
    /\ UNCHANGED <<mode, type_map, node_to_ty,
                   sched_vars, lower_vars, points_vars, constr_vars>>

NextProto == ConvertMapping

Init == InitSched \/ InitLower \/ InitPoints \/ InitConstr \/ InitProto

Next == NextSched \/ NextLower \/ NextPoints \/ NextConstr \/ NextProto

Spec == Init /\ [][Next]_vars

(***************************************************************************)
(* Properties of field scheduling.                                         *)
(***************************************************************************)
\* the byte interval [o, o + size/8) of a field
FldLo(f) == f.byte_offset
FldHi(f) == f.byte_offset + (f.bit_sz \div 8)

\* the byte intervals of two fields intersect
Overlap(f, g) ==
    LET lo == IF FldLo(f) >= FldLo(g) THEN FldLo(f) ELSE FldLo(g)
        hi == IF FldHi(f) <= FldHi(g) THEN FldHi(f) ELSE FldHi(g)
    IN lo < hi

NoOverlapIn(flds) ==
    \A i, j \in 1..Len(flds) : i < j => ~Overlap(flds[i], flds[j])

\* the fields of all emitted structures
EmittedFields == UNION {{structures[s].fields[i] : i \in 1..Len(structures[s].fields)}
                          : s \in 1..Len(structures)}

\* C1: after every field processed no two fields of one classroom overlap, and
\* no two fields of an emitted Structure or of a Structure of the lowered type
\* map overlap.
C1_NoOverlap ==
    /\ \A c \in 1..Len(hp) : NoOverlapIn(hp[c].scheduled)
    /\ \A s \in 1..Len(structures) : NoOverlapIn(structures[s].fields)
    /\ \A id \in DOMAIN ctx.ephemeral_types :
          ctx.ephemeral_types[id].kind = "Structure" =>
              NoOverlapIn(ctx.ephemeral_types[id].fields)

\* two classrooms were needed and one of them took a second field
C1_Witness ==
    /\ spc = "done"
    /\ Len(structures) = 2
    /\ \E s \in 1..2 : Len(structures[s].fields) = 2

\* the byte interval of f lies strictly inside the byte interval of g
StrictlyContained(f, g) ==
    /\ FldLo(g) < FldLo(f)
    /\ FldLo(f) < FldHi(f)
    /\ FldHi(f) < FldHi(g)

\* C2: an input field strictly contained in another input field is in none of
\* the emitted Structures.
C2_ContainedDropped ==
    spc = "done" =>
        \A i, j \in 1..Len(fields) :
            StrictlyContained(fields[i], fields[j]) => fields[i] \notin EmittedFields

\* the fields can be put into k groups without an overlap inside a group
CanPartition(fs, k) ==
    \E g \in [1..Len(fs) -> 1..k] :
        \A i, j \in 1..Len(fs) : (i < j /\ g[i] = g[j]) => ~Overlap(fs[i], fs[j])

RECURSIVE Concat(_, _)
Concat(ss, n) == IF n = 0 THEN <<>> ELSE Concat(ss, n - 1) \o ss[n].fields

\* the retained fields: those of the emitted structures
Retained == Concat(structures, Len(structures))

IsMinimal ==
    /\ \A s \in 1..Len(structures) : NoOverlapIn(structures[s].fields)
    /\ \A k \in 0..(Len(structures) - 1) : ~CanPartition(Retained, k)

\* C3 as stated: the number of emitted Structures is the minimum number of
\* groups without overlap, for every list of fields.
C3_MinimalAlways == spc = "done" => IsMinimal

\* C3 amended: the number of emitted Structures is the minimum number of groups
\* without overlap when every field is at least one byte (8 bits) wide.
C3_MinimalWholeBytes ==
    (spc = "done" /\ \A i \in 1..Len(fields) : fields[i].bit_sz >= 8) => IsMinimal

\* three fields of whole bytes, two of which abut and share a Structure
C3_Witness ==
    /\ spc = "done"
    /\ Len(fields) = 3
    /\ \A i \in 1..Len(fields) : fields[i].bit_sz >= 8
    /\ Len(structures) = 2
    /\ \E s \in 1..2 :
          /\ Len(structures[s].fields) = 2
          /\ FldHi(structures[s].fields[1]) = FldLo(structures[s].fields[2])

(***************************************************************************)
(* Properties of the lowering.                                             *)
(***************************************************************************)
TypeOf(id) == ctx.ephemeral_types[id]

Lowered == DOMAIN cand

\* all candidates of a node, in the order build_type concatenates them
Candidates(nd) ==
    cand[nd].struct_types \o cand[nd].alias_types
        \o cand[nd].pointer_types \o cand[nd].function_types

HasEdge(nd, tags) ==
    \E i \in 1..Len(edges) : edges[i].src = nd /\ edges[i].weight.tag \in tags

HasNonZeroFieldEdge(nd) ==
    \E i \in 1..Len(edges) : /\ edges[i].src = nd
                              /\ edges[i].weight.tag = "Field"
                              /\ edges[i].weight.a # 0

\* C4: a node with outgoing edges and exactly one candidate T is given a type id
\* that maps to T itself, never to a Union around it.
C4_NoSingletonUnion ==
    \A nd \in Lowered :
        (~cand[nd].terminal /\ Len(Candidates(nd)) = 1) =>
            /\ TypeOf(types[nd]) = Candidates(nd)[1]
            /\ TypeOf(types[nd]).kind # "Union"

\* a node whose only candidate is a Structure of two fields
C4_Witness ==
    \E nd \in Lowered :
        /\ Len(Candidates(nd)) = 1
        /\ Candidates(nd)[1].kind = "Structure"
        /\ Len(Candidates(nd)[1].fields) = 2
        /\ TypeOf(types[nd]) = Candidates(nd)[1]

\* C5: no node has both a Structure and an Alias candidate: a Field edge at a
\* non-zero offset excludes the Alias candidates, none excludes the Structures.
C5_AliasStructureExclusive ==
    \A nd \in Lowered :
        /\ cand[nd].struct_types = <<>> \/ cand[nd].alias_types = <<>>
        /\ HasNonZeroFieldEdge(nd) => cand[nd].alias_types = <<>>
        /\ ~HasNonZeroFieldEdge(nd) => cand[nd].struct_types = <<>>

\* a node with a field at offset 0 and one at offset 4: Structures, no Alias
C5_Witness ==
    \E nd \in Lowered :
        /\ HasNonZeroFieldEdge(nd)
        /\ \E i \in 1..Len(edges) : /\ edges[i].src = nd
                                     /\ edges[i].weight.tag = "Field"
                                     /\ edges[i].weight.a = 0
        /\ cand[nd].struct_types # <<>>
        /\ cand[nd].alias_types = <<>>

\* C7: a second run of new and collect_ctypes on the same inputs, with the hash
\* maps iterated in any order, returns the maps of the first run.
C7_Deterministic ==
    pc = "done" =>
        \A order \in HashOrders(DOMAIN out_param_mapping) :
            collect_ctypes(new(tid_to_node_index, out_param_mapping,
                               ctx.default_lattice_elem, order))
                = <<types, ctx.ephemeral_types>>

\* C8: a node without outgoing edges is lowered to the Primitive named by its
\* upper bound, and the type map holds at most one Primitive per name.
C8_TerminalPrimitiveCached ==
    /\ \A nd \in DOMAIN types :
          ~HasEdge(nd, {"Field", "Load", "Store", "In", "Out"}) =>
              TypeOf(types[nd]) = Primitive(node_bounds[nd].upper)
    /\ \A i, j \in DOMAIN ctx.ephemeral_types :
          (/\ TypeOf(i).kind = "Primitive"
           /\ TypeOf(j).kind = "Primitive"
           /\ TypeOf(i).name = TypeOf(j).name) => i = j

\* two terminal nodes with the same upper bound share one type id
C8_Witness ==
    /\ pc = "done"
    /\ edges = <<>>
    /\ node_bounds[0].upper = node_bounds[1].upper
    /\ types[0] = types[1]
    /\ TypeOf(types[0]).kind = "Primitive"

\* C9: a Function candidate has no return type only if its node has no Out edge.
C9_ReturnNoneOnlyWithoutOut ==
    \A nd \in Lowered :
        \A i \in 1..Len(cand[nd].function_types) :
            cand[nd].function_types[i].return_ty = {} => ~HasEdge(nd, {"Out"})

\* a function with a single out-parameter and one without any
C9_Witness ==
    /\ pc = "done"
    /\ \E nd \in Lowered :
          /\ HasEdge(nd, {"Out"})
          /\ Len(cand[nd].out_params) = 1
          /\ Len(OrigParams(ctx, nd)) <= 1
          /\ cand[nd].function_types[1].return_ty = {cand[nd].out_params[1].type_index}
    /\ \E nd \in Lowered :
          /\ cand[nd].function_types # <<>>
          /\ cand[nd].function_types[1].return_ty = {}

RECURSIVE SumBytes(_, _)
SumBytes(locs, k) == IF k = 0 THEN 0 ELSE SumBytes(locs, k - 1) + locs[k]

OutIndices(nd) ==
    {edges[i].weight.a : i \in {j \in 1..Len(edges) :
                                   edges[j].src = nd /\ edges[j].weight.tag = "Out"}}

\* field i of a return structure is as the declared location i asks
ReturnFieldOk(nd, fld, i) ==
    LET locs == OrigParams(ctx, nd)
        computed == {p \in Range(cand[nd].out_params) : p.index = i - 1}
    IN /\ fld.bit_sz = locs[i] * 8
       /\ fld.byte_offset = SumBytes(locs, i - 1)
       /\ \A p \in computed : fld.type_index = p.type_index
       /\ computed = {} =>
              TypeOf(fld.type_index) = Primitive(ctx.default_lattice_elem.upper)

\* C10: with more than one out-parameter index or more than one declared
\* out-location, the return type of the function is a Structure with one field
\* per declared location, in order, at the cumulative byte offsets.
C10_ReturnStructure ==
    \A nd \in Lowered :
        \A k \in 1..Len(cand[nd].function_types) :
            (Cardinality(OutIndices(nd)) > 1 \/ Len(OrigParams(ctx, nd)) > 1) =>
                \E r \in cand[nd].function_types[k].return_ty :
                    /\ cand[nd].function_types[k].return_ty = {r}
                    /\ TypeOf(r).kind = "Structure"
                    /\ Len(TypeOf(r).fields) = Len(OrigParams(ctx, nd))
                    /\ \A i \in 1..Len(TypeOf(r).fields) :
                          ReturnFieldOk(nd, TypeOf(r).fields[i], i)

\* locations of 4 and 8 bytes declared, only Out(0) computed: the fields are
\* (0, 32, t0) and (4, 64, the default primitive)
C10_Witness ==
    \E nd \in Lowered :
        /\ OrigParams(ctx, nd) = <<4, 8>>
        /\ OutIndices(nd) = {0}
        /\ \E r \in cand[nd].function_types[1].return_ty :
              /\ TypeOf(r).kind = "Structure"
              /\ Len(TypeOf(r).fields) = 2
              /\ TypeOf(r).fields[2].byte_offset = 4
              /\ TypeOf(r).fields[1].type_index = cand[nd].out_params[1].type_index
              /\ TypeOf(TypeOf(r).fields[2].type_index).kind = "Primitive"

\* C11: a node with two or more candidates is given a Union with one member per
\* candidate, the members distinct type ids that map to the candidates.
C11_UnionOfAllCandidates ==
    \A nd \in Lowered :
        (~cand[nd].terminal /\ Len(Candidates(nd)) >= 2) =>
            /\ TypeOf(types[nd]).kind = "Union"
            /\ TypeOf(types[nd]).members \subseteq DOMAIN ctx.ephemeral_types
            /\ Cardinality(TypeOf(types[nd]).members) = Len(Candidates(nd))
            /\ \E f \in [1..Len(Candidates(nd)) -> TypeOf(types[nd]).members] :
                  /\ \A i, j \in DOMAIN f : i # j => f[i] # f[j]
                  /\ \A i \in DOMAIN f : TypeOf(f[i]) = Candidates(nd)[i]

\* the fields (0, 64) and (4, 32) of a node overlap: the node is the Union of the
\* Structures of one field each
C11_Witness ==
    \E nd \in Lowered :
        /\ Len(edges_directed(nd)) = 2
        /\ {edges_directed(nd)[i].weight : i \in 1..2} = {FieldLabel(0, 64), FieldLabel(4, 32)}
        /\ Len(Candidates(nd)) = 2
        /\ TypeOf(types[nd]).kind = "Union"
        /\ \E m1, m2 \in TypeOf(types[nd]).members :
              /\ m1 # m2
              /\ TypeOf(m1).kind = "Structure" /\ Len(TypeOf(m1).fields) = 1
              /\ TypeOf(m1).fields[1].byte_offset = 0 /\ TypeOf(m1).fields[1].bit_sz = 64
              /\ TypeOf(m2).kind = "Structure" /\ Len(TypeOf(m2).fields) = 1
              /\ TypeOf(m2).fields[1].byte_offset = 4 /\ TypeOf(m2).fields[1].bit_sz = 32

\* the distinct targets of the outgoing Load and Store edges of a node
LoadStoreTargets(nd) ==
    {edges[i].target : i \in {j \in 1..Len(edges) :
                                 /\ edges[j].src = nd
                                 /\ edges[j].weight.tag \in {"Load", "Store"}}}

\* C12: the pointer candidates of a node are one Pointer per distinct target of
\* its Load and Store edges, each to a type id that maps to the Alias of the target.
C12_OnePointerPerTarget ==
    \A nd \in Lowered :
        LET ptrs == cand[nd].pointer_types
        IN /\ Len(ptrs) = Cardinality(LoadStoreTargets(nd))
           /\ \A i \in 1..Len(ptrs) :
                 /\ ptrs[i].kind = "Pointer"
                 /\ ptrs[i].target \in DOMAIN ctx.ephemeral_types
                 /\ TypeOf(ptrs[i].target).kind = "Alias"
                 /\ TypeOf(ptrs[i].target).node \in LoadStoreTargets(nd)
           /\ \A t \in LoadStoreTargets(nd) :
                 Cardinality({i \in 1..Len(ptrs) : TypeOf(ptrs[i].target) = Alias(t)}) = 1

\* a Load and a Store edge to one target give a single Pointer
C12_Witness ==
    \E nd \in Lowered :
        /\ Len(edges_directed(nd)) = 2
        /\ edges_directed(nd)[1].weight = LoadLabel
        /\ edges_directed(nd)[2].weight = StoreLabel
        /\ edges_directed(nd)[1].target = edges_directed(nd)[2].target
        /\ Len(cand[nd].pointer_types) = 1
        /\ TypeOf(cand[nd].pointer_types[1].target) = Alias(edges_directed(nd)[1].target)

(***************************************************************************)
(* Properties of points_to.                                                *)
(***************************************************************************)
\* the offset the code obtains for an access: the raw offset, less the offset of
\* the stack pointer for an access on the current stack object
ObtainedOffset(object_id) ==
    IF /\ object_id = pointer_state.stack_id
       /\ pointer_state.stack_pointer.unique
       /\ pointer_state.stack_pointer.off.exact
    THEN Wrap(dom_val[object_id].value - pointer_state.stack_pointer.off.value)
    ELSE dom_val[object_id].value

AccessesOf(object_id) == {a \in accesses : a.ty_var = StripWhitespace(object_id)}

\* C6: every returned access has the offset None or a non-negative offset, and
\* an access whose offset after stack normalization is negative has None.
C6_NoNegativeOffset ==
    /\ \A a \in accesses : \A off \in a.offset : off >= 0
    /\ ppc = "returned" =>
          \A object_id \in DOMAIN dom_val :
              (dom_val[object_id].exact /\ ObtainedOffset(object_id) < 0) =>
                  /\ AccessesOf(object_id) # {}
                  /\ \A a \in AccessesOf(object_id) : a.offset = {}

\* a stack access at -4 with the stack pointer at 4 is normalized to -8 and has
\* None, next to a heap access that keeps its offset 3
C6_Witness ==
    /\ ppc = "returned"
    /\ DOMAIN dom_val = ObjectIds
    /\ pointer_state.stack_pointer = UniqueTarget(Exact(4))
    /\ dom_val[StackId] = Exact(-4)
    /\ dom_val[HeapId] = Exact(3)
    /\ \E a \in AccessesOf(StackId) : a.offset = {}
    /\ \E a \in AccessesOf(HeapId) : a.offset = {3}

(***************************************************************************)
(* Properties of constraint generation.                                    *)
(***************************************************************************)
\* the constraint access(v2) <= access(var) of an assignment var := v2
AssignConstraint(df) ==
    SubtypeConstraint(DerivedTypeVar(access(reg_map, df.value.var).tv),
                      DerivedTypeVar(access(reg_map, df.var).tv))

\* C13: for a block start node with a node context, the returned constraint set
\* holds access(v2) <= access(var) for every Assign(var, Var(v2)) of the block.
C13_AssignConstraintEmitted ==
    gpc = "done" =>
        \A n \in 1..Len(cfg_graph) :
            (cfg_graph[n].kind = "BlkStart" /\ cfg_graph[n].has_context) =>
                \A d \in 1..Len(blk_defs) :
                    (blk_defs[d].kind = "Assign" /\ blk_defs[d].value.kind = "Var") =>
                        AssignConstraint(blk_defs[d]) \in cs

(***************************************************************************)
(* Properties of the conversion to protobuf.                               *)
(***************************************************************************)
\* the type ids, byte offsets, bit sizes and parameter indices of a CType that
\* the conversion emits
NumbersOf(ct) ==
    CASE ct.kind = "Alias" -> IF ct.node \in DOMAIN node_to_ty
                              THEN {node_to_ty[ct.node]} ELSE {}
      [] ct.kind = "Function" ->
            ct.return_ty
                \cup UNION {{ct.params[i].index, ct.params[i].type_index} :
                               i \in 1..Len(ct.params)}
      [] ct.kind = "Pointer" -> {ct.target}
      [] ct.kind = "Primitive" -> {}
      [] ct.kind = "Structure" ->
            UNION {{ct.fields[i].bit_sz, ct.fields[i].byte_offset, ct.fields[i].type_index} :
                      i \in 1..Len(ct.fields)}
      [] ct.kind = "Union" -> ct.members

AllNumbers == DOMAIN type_map \cup UNION {NumbersOf(type_map[id]) : id \in DOMAIN type_map}

\* the message of a type id that carries the number itself
SameTypeId(id) == [type_id |-> {id}]

\* the message of a CType that carries each of its numbers unchanged
SameNumbers(ct) ==
    CASE ct.kind = "Alias" ->
            [kind |-> "Alias",
             to_type |-> IF ct.node \in DOMAIN node_to_ty
                         THEN {SameTypeId(node_to_ty[ct.node])} ELSE {}]
      [] ct.kind = "Function" ->
            [kind |-> "Function",
             parameters |-> [i \in 1..Len(ct.params) |->
                                [parameter_index |-> {ct.params[i].index},
                                 type_index |-> {SameTypeId(ct.params[i].type_index)}]],
             return_type |-> {SameTypeId(r) : r \in ct.return_ty},
             has_return |-> ct.return_ty # {}]
      [] ct.kind = "Pointer" -> [kind |-> "Pointer", to_type_id |-> {SameTypeId(ct.target)}]
      [] ct.kind = "Primitive" -> [kind |-> "Primitive", type_constant |-> ct.name]
      [] ct.kind = "Structure" ->
            [kind |-> "Structure",
             fields |-> [i \in 1..Len(ct.fields) |->
                            [bit_size |-> {ct.fields[i].bit_sz},
                             byte_offset |-> {ct.fields[i].byte_offset},
                             type_id |-> {SameTypeId(ct.fields[i].type_index)}]]]
      [] ct.kind = "Union" ->
            LET children == Ascending(ct.members)
            IN [kind |-> "Union",
                target_type_ids |-> [i \in 1..Len(children) |-> SameTypeId(children[i])]]

\* C14: the conversion aborts when a type id, byte offset, bit size or parameter
\* index does not fit the width of the output, and otherwise emits every number
\* unchanged.
C14_OverflowIsFatal ==
    /\ cpc = "converted" =>
          /\ \A x \in AllNumbers : x <= MaxU32
          /\ DOMAIN mapping = DOMAIN type_map
          /\ \A id \in DOMAIN type_map :
                mapping[id] = [type_id |-> {SameTypeId(id)},
                               inner_type |-> {SameNumbers(type_map[id])}]
    /\ cpc = "panicked" => \E x \in AllNumbers : x > MaxU32

\* a Structure whose field has a byte offset that does not fit, all its other
\* numbers fitting, aborts the conversion
C14_Witness ==
    /\ cpc = "panicked"
    /\ DOMAIN type_map = {0}
    /\ type_map[0] = Structure(<<Field(MaxU32 + 1, MaxU32, 0)>>)

(***************************************************************************)
(* More properties of field scheduling.                                    *)
(***************************************************************************)
\* the position in sorted_fields of the field that opened a classroom: classrooms
\* are opened in this order
OpenedAt(cls) == CHOOSE i \in 1..Len(sorted_fields) : sorted_fields[i] = cls.scheduled[1]

\* the classrooms of the heap with the smallest next schedulable offset
TiedAtMinimum ==
    {c \in 1..Len(hp) :
        \A d \in 1..Len(hp) :
            get_next_scheduluable_offset(hp[c]) <= get_next_scheduluable_offset(hp[d])}

\* C15: among the classrooms with the smallest next schedulable offset, the one
\* at the top of the heap is the one opened first.
C15_TiesByInsertionOrder ==
    (spc = "loop" /\ Len(hp) > 0) =>
        \A c \in TiedAtMinimum : OpenedAt(hp[1]) <= OpenedAt(hp[c])

(***************************************************************************)
(* More properties of the lowering.                                        *)
(***************************************************************************)
\* the type ids allocated so far are those from the first id up to curr_id
AllocatedIds == (MaxNodeIndex + 1)..(ctx.curr_id - 1)

\* C16: type ids are allocated in increasing order from one more than the
\* largest node index: the ids in the type map are those below curr_id, a step
\* adds the ids from the old curr_id on, and no entry is overwritten.
C16_IdsIncrease ==
    /\ [](pc \in {"collect", "done"} => DOMAIN ctx.ephemeral_types = AllocatedIds)
    /\ [][pc = "new" => ctx'.curr_id = MaxNodeIndex + 1]_vars
    /\ [][pc = "collect" =>
            /\ ctx'.curr_id >= ctx.curr_id
            /\ DOMAIN ctx'.ephemeral_types
                 = DOMAIN ctx.ephemeral_types \cup (ctx.curr_id..(ctx'.curr_id - 1))
            /\ \A id \in DOMAIN ctx.ephemeral_types :
                  ctx'.ephemeral_types[id] = ctx.ephemeral_types[id]]_vars

\* both nodes are lowered and five types were allocated, the ids 2 to 6
C16_Witness ==
    /\ pc = "done"
    /\ ctx.curr_id = MaxNodeIndex + 6
    /\ DOMAIN ctx.ephemeral_types = (MaxNodeIndex + 1)..(MaxNodeIndex + 5)
    /\ \A nd \in Nodes : ~cand[nd].terminal

\* the indices k of the In(k) edges of a node, and the targets of its In(k) edges
InIndices(nd) ==
    {edges[i].weight.a : i \in {j \in 1..Len(edges) :
                                   edges[j].src = nd /\ edges[j].weight.tag = "In"}}

InTargets(nd, k) ==
    {edges[i].target : i \in {j \in 1..Len(edges) :
                                 /\ edges[j].src = nd
                                 /\ edges[j].weight = InLabel(k)}}

\* the type of a parameter is the Alias of the only target, or a Union of
\* Aliases, one for each of the several targets
ParamTypeOk(nd, p) ==
    LET tgts == InTargets(nd, p.index)
    IN IF Cardinality(tgts) = 1
       THEN \E t \in tgts : TypeOf(p.type_index) = Alias(t)
       ELSE /\ TypeOf(p.type_index).kind = "Union"
            /\ Cardinality(TypeOf(p.type_index).members) = Cardinality(tgts)
            /\ \A t \in tgts : \E m \in TypeOf(p.type_index).members : TypeOf(m) = Alias(t)

\* C17: the Function of a node with In edges has one Parameter per distinct
\* index, in ascending order, typed by the Alias of the single target or by the
\* Union of the Aliases of the several targets.
C17_OneParameterPerIndex ==
    \A nd \in Lowered :
        InIndices(nd) # {} =>
            /\ Len(cand[nd].function_types) = 1
            /\ LET ps == cand[nd].function_types[1].params
               IN /\ Len(ps) = Cardinality(InIndices(nd))
                  /\ {ps[i].index : i \in 1..Len(ps)} = InIndices(nd)
                  /\ \A i, j \in 1..Len(ps) : i < j => ps[i].index < ps[j].index
                  /\ \A i \in 1..Len(ps) : ParamTypeOk(nd, ps[i])

\* the type ids that occur in a CType
TypeIdsIn(ct) ==
    CASE ct.kind = "Alias" -> {}
      [] ct.kind = "Primitive" -> {}
      [] ct.kind = "Pointer" -> {ct.target}
      [] ct.kind = "Structure" -> {ct.fields[i].type_index : i \in 1..Len(ct.fields)}
      [] ct.kind = "Function" ->
            ct.return_ty \cup {ct.params[i].type_index : i \in 1..Len(ct.params)}
      [] ct.kind = "Union" -> ct.members

\* the type ids that occur in the result of collect_ctypes
OccurringIds ==
    {types[nd] : nd \in DOMAIN types}
        \cup UNION {TypeIdsIn(ctx.ephemeral_types[id]) : id \in DOMAIN ctx.ephemeral_types}

\* C18: no assertion of a call of build_type fails, every node has a type id
\* when the loop of collect_ctypes is over, and every type id that occurs in the
\* result is a key of the type map.
C18_ResultClosed ==
    /\ \A nd \in Lowered :
          \A s \in 1..Len(cand[nd].struct_types) :
              \A i \in 1..Len(cand[nd].struct_types[s].fields) :
                  NewClassAccepts(cand[nd].struct_types[s].fields[i])
    /\ (pc = "collect" /\ NextNode \notin Nodes) => DOMAIN types = Nodes
    /\ pc = "done" => DOMAIN types = Nodes
    /\ OccurringIds \subseteq DOMAIN ctx.ephemeral_types

\* a result with a Pointer, a Function with a parameter and a return type, and a
\* Union
C18_Witness ==
    /\ pc = "done"
    /\ \E id \in DOMAIN ctx.ephemeral_types : TypeOf(id).kind = "Union" /\ TypeOf(id).members # {}
    /\ \E id \in DOMAIN ctx.ephemeral_types : TypeOf(id).kind = "Pointer"
    /\ \E id \in DOMAIN ctx.ephemeral_types :
          TypeOf(id).kind = "Function" /\ TypeOf(id).return_ty # {}

\* C19: a node with an outgoing edge has at least one candidate, and a Union
\* given to a node has at least two members.
C19_NoEmptyUnion ==
    \A nd \in Lowered :
        ~cand[nd].terminal =>
            /\ Len(Candidates(nd)) >= 1
            /\ TypeOf(types[nd]).kind = "Union" =>
                  Cardinality(TypeOf(types[nd]).members) >= 2

\* the fields of the classrooms of a heap, one after the other
RECURSIVE Scheduled(_, _)
Scheduled(heap, n) == IF n = 0 THEN <<>> ELSE Scheduled(heap, n - 1) \o heap[n].scheduled

Occurrences(flds, f) == Cardinality({i \in 1..Len(flds) : flds[i] = f})

\* the containment rule skipped the field k of sorted_fields
DroppedByContainment(k) ==
    LET before == ScheduleAll(<<>>, sorted_fields, k - 1)
    IN \E c \in 1..Len(before) : superscedes_fld(before[c], sorted_fields[k])

\* C20: the fields placed are input fields, each placed once at most; a field
\* that was processed and is placed nowhere was dropped by the containment rule;
\* a fresh classroom accepts every field.
C20_FieldsConserved ==
    /\ spc = "loop" =>
          /\ \A i \in 1..Len(Scheduled(hp, Len(hp))) :
                \E j \in 1..Len(fields) : fields[j] = Scheduled(hp, Len(hp))[i]
          /\ \A j \in 1..Len(sorted_fields) :
                /\ Occurrences(Scheduled(hp, Len(hp)), sorted_fields[j]) <= 1
                /\ (j < fld_idx /\ Occurrences(Scheduled(hp, Len(hp)), sorted_fields[j]) = 0)
                      => DroppedByContainment(j)
                /\ NewClassAccepts(sorted_fields[j])
    /\ spc = "done" =>
          /\ \A i \in 1..Len(Retained) : \E j \in 1..Len(fields) : fields[j] = Retained[i]
          /\ \A j \in 1..Len(sorted_fields) :
                /\ Occurrences(Retained, sorted_fields[j]) <= 1
                /\ Occurrences(Retained, sorted_fields[j]) = 0 => DroppedByContainment(j)

\* three fields that overlap pairwise end in three Structures of one field each
C20_Witness ==
    /\ spc = "done"
    /\ Len(fields) = 3
    /\ \A i \in 1..3 : fields[i].byte_offset = 0 /\ fields[i].bit_sz = 32
    /\ Len(structures) = 3
    /\ \A j \in 1..3 : Occurrences(Retained, fields[j]) = 1


\* a return structure was synthesized for the function candidate of nd
ReturnStructureOf(nd) ==
    {r \in UNION {cand[nd].function_types[i].return_ty :
                     i \in 1..Len(cand[nd].function_types)} :
        /\ (Cardinality(OutIndices(nd)) > 1 \/ Len(OrigParams(ctx, nd)) > 1)
        /\ TypeOf(r).kind = "Structure"}

\* C21: when a return structure is synthesized for a node, the type computed
\* for every Out(k) of the node is the type of some field of the structure,
\* also when fewer locations are declared than there are out-parameter indices.
C21_NoOutTypeLost ==
    \A nd \in Lowered :
        \A r \in ReturnStructureOf(nd) :
            \A p \in Range(cand[nd].out_params) :
                \E i \in 1..Len(TypeOf(r).fields) :
                    TypeOf(r).fields[i].type_index = p.type_index

\* C21 on the nodes whose declared locations cover every out-parameter index
C21_NoOutTypeLostWhenDeclared ==
    \A nd \in Lowered :
        \A r \in ReturnStructureOf(nd) :
            (\A k \in OutIndices(nd) : k < Len(OrigParams(ctx, nd))) =>
                \A p \in Range(cand[nd].out_params) :
                    \E i \in 1..Len(TypeOf(r).fields) :
                        TypeOf(r).fields[i].type_index = p.type_index

====
